---- MODULE Spec2Model ----
(***************************************************************************)
(* Model of the MicroPython BMM150 magnetometer driver                     *)
(* (micropython_bmm150/bmm150.py).  The device is a bank of one-byte       *)
(* registers behind an I2C bus; the driver is a set of properties bound to *)
(* those registers through two accessors of i2c_helpers: CBits (a          *)
(* bit-field, written by read-modify-write) and RegisterStruct (a whole    *)
(* register image).                                                        *)
(***************************************************************************)
EXTENDS Integers, Sequences, FiniteSets, TLC

(***************************************************************************)
(* Register addresses and enumerated values, bmm150.py lines 29-62.        *)
(***************************************************************************)
REG_WHOAMI == 64
POWER_CONTROL == 75
OPERATION_MODE == 76
DATA == 66
LOW_THRESHOLD == 79
HIGH_THRESHOLD == 80
INTERRUPT == 77
STATUS_INTERRUPT == 74
DEVICE_ID == 50

NORMAL == 0
FORCED == 1
SLEEP == 3
operation_mode_values == {NORMAL, FORCED, SLEEP}

INT_DISABLED == 31
INT_ENABLED == 0
interrupt_mode_values == {INT_DISABLED, INT_ENABLED}

RATE_10HZ == 0
RATE_2HZ == 1
RATE_6HZ == 2
RATE_8HZ == 3
RATE_15HZ == 4
RATE_20HZ == 5
RATE_25HZ == 6
RATE_30HZ == 7
data_rate_values ==
  {RATE_10HZ, RATE_2HZ, RATE_6HZ, RATE_8HZ, RATE_15HZ, RATE_20HZ, RATE_25HZ, RATE_30HZ}

\* The name tables of the getters (tuples in the source, indexed from 0).
operation_mode_names == <<"NORMAL", "FORCED", "SLEEP">>
data_rate_names ==
  <<"RATE_10HZ", "RATE_2HZ", "RATE_6HZ", "RATE_8HZ",
    "RATE_15HZ", "RATE_20HZ", "RATE_25HZ", "RATE_30HZ">>

(***************************************************************************)
(* Bounds of the model.                                                    *)
(***************************************************************************)
\* operation_mode is set to values in 0..MaxModeInput
MaxModeInput == 4
\* data_rate is set to values in 0..MaxRateInput
MaxRateInput == 8
\* interrupt_mode is set to its two legal values and to 0..MaxInterruptInput
MaxInterruptInput == 2
\* thresholds are set to values ThresholdMargin below 0 and above the
\* largest value one byte can hold
ThresholdMargin == 33

(***************************************************************************)
(* Integer and bit arithmetic on Python ints.                              *)
(***************************************************************************)
RECURSIVE Pow2(_)
Pow2(n) == IF n = 0 THEN 1 ELSE 2 * Pow2(n - 1)

\* a << n
Shl(a, n) == a * Pow2(n)

\* a >> n on a Python int: arithmetic, rounds toward minus infinity
Shr(a, n) == a \div Pow2(n)

RECURSIVE BitAnd(_, _)
\* a & b for a, b >= 0
BitAnd(a, b) ==
  IF a = 0 \/ b = 0 THEN 0
  ELSE (a % 2) * (b % 2) + 2 * BitAnd(a \div 2, b \div 2)

RECURSIVE BitOr(_, _)
\* a | b for a, b >= 0
BitOr(a, b) ==
  IF a = 0 THEN b
  ELSE IF b = 0 THEN a
  ELSE (IF a % 2 = 1 \/ b % 2 = 1 THEN 1 ELSE 0) + 2 * BitOr(a \div 2, b \div 2)

\* a & ~m for a, m >= 0
AndNot(a, m) == a - BitAnd(a, m)

\* int(a / b) for b > 0: true division, then truncation toward zero
TruncDiv(a, b) == IF a >= 0 THEN a \div b ELSE -((-a) \div b)

Byte == 0 .. 255

(***************************************************************************)
(* Register Field Accessor (i2c_helpers.CBits).  A descriptor is the       *)
(* triple given to CBits(num_bits, register_address, start_bit); the       *)
(* register span is one byte.                                              *)
(***************************************************************************)
operation_mode_field == [num_bits |-> 2, register |-> OPERATION_MODE, start_bit |-> 1]
power_mode_field == [num_bits |-> 1, register |-> POWER_CONTROL, start_bit |-> 0]
data_rate_field == [num_bits |-> 2, register |-> OPERATION_MODE, start_bit |-> 0]

FieldOf(name) ==
  CASE name = "operation_mode" -> operation_mode_field
    [] name = "power_mode" -> power_mode_field
    [] OTHER -> data_rate_field

\* the precomputed mask of the field's bits
CBitsMask(d) == Shl(Pow2(d.num_bits) - 1, d.start_bit)

\* read: the register image shifted right by the bit offset, masked to the width
CBitsGet(d, image) == Shr(BitAnd(image, CBitsMask(d)), d.start_bit)

\* write: the image read, the target bits cleared, the new value shifted into
\* position ORed in (the accessor does not check the value's range)
CBitsImage(d, image, value) ==
  BitOr(AndNot(image, CBitsMask(d)), Shl(value, d.start_bit))

(***************************************************************************)
(* State.                                                                  *)
(*   regs     the device's registers, one byte each                        *)
(*   pc       the driver's position: "new" .. "ready" through __init__,    *)
(*            "failed" when __init__ raised                                *)
(*   rmw      the bit-field write in flight between its bus read and its   *)
(*            bus write (active), or the last one done                     *)
(*   call     the property access (or __init__) running or last run        *)
(*   log      the bus transactions of that call, in order                  *)
(*   result   what that call returned or raised                            *)
(*   before   the registers as they were when that call started            *)
(*   foreign  the registers another bus actor wrote during that call       *)
(*   lastSet  the last driver write, no write having followed it           *)
(*   given    the value the caller has at hand to write to a threshold     *)
(***************************************************************************)
VARIABLES regs, pc, rmw, call, log, result, before, foreign, lastSet, given

vars == <<regs, pc, rmw, call, log, result, before, foreign, lastSet, given>>

Registers ==
  {REG_WHOAMI, POWER_CONTROL, OPERATION_MODE, INTERRUPT, STATUS_INTERRUPT,
   LOW_THRESHOLD, HIGH_THRESHOLD} \cup (DATA .. DATA + 7)

NoRmw == [active |-> FALSE, field |-> "", value |-> 0, image |-> 0]
NoCall == [op |-> "", arg |-> 0]
NoSet == [prop |-> "", value |-> 0]
NoResult == [kind |-> "none", val |-> ""]
Running == [kind |-> "running", val |-> ""]
Ok(v) == [kind |-> "ok", val |-> v]
Raise(e) == [kind |-> e, val |-> ""]

BusRead(reg) == [op |-> "R", reg |-> reg, data |-> regs[reg]]
BusWrite(reg, byte) == [op |-> "W", reg |-> reg, data |-> byte]

\* Register images the device is started with and other bus actors write:
\* every value of bits 0..2 (both bit-fields of 0x4C), under upper bits all
\* clear or all set.
DeviceImages == {b \in Byte : b \div 8 \in {0, 31}}

\* A property access starts: it is the driver's only call in progress.
Idle == pc = "ready" /\ ~rmw.active

Begin(op, arg) ==
  /\ call' = [op |-> op, arg |-> arg]
  /\ before' = regs
  /\ foreign' = {}

(***************************************************************************)
(* CBits.__set__, first half: the bus read of the register image.          *)
(***************************************************************************)
CBitsSetRead(name, value) ==
  /\ rmw' = [active |-> TRUE, field |-> name, value |-> value,
             image |-> regs[FieldOf(name).register]]
  /\ UNCHANGED regs

\* __init__ with the identity check left out
AfterWriteNoIdentity(p) ==
  CASE p = "power_rmw" -> "set_mode"
    [] p = "mode_rmw" -> "ready"
    [] OTHER -> p

\* the pc after a bit-field write completes
AfterWrite(p) ==
  CASE p = "power_rmw" -> "check_id"
    [] p = "mode_rmw" -> "ready"
    [] OTHER -> p

(***************************************************************************)
(* CBits.__set__, second half: the bus write of the modified image.        *)
(***************************************************************************)
CBitsSetWrite ==
  /\ rmw.active
  /\ LET d == FieldOf(rmw.field)
         image == CBitsImage(d, rmw.image, rmw.value)
     IN /\ regs' = [regs EXCEPT ![d.register] = image]
        /\ log' = Append(log, BusWrite(d.register, image))
  /\ rmw' = [rmw EXCEPT !.active = FALSE]
  /\ pc' = AfterWrite(pc)
  /\ result' = IF pc = "power_rmw" THEN Running ELSE Ok("")
  /\ lastSet' = [prop |-> rmw.field, value |-> rmw.value]
  /\ UNCHANGED <<call, before, foreign, given>>

(***************************************************************************)
(* BMM150.__init__                                                         *)
(***************************************************************************)
\* self._power_mode = True
PowerOnValue == 1

PowerOn ==
  /\ pc = "new"
  /\ Begin("__init__", 0)
  /\ log' = <<BusRead(POWER_CONTROL)>>
  /\ CBitsSetRead("power_mode", PowerOnValue)
  /\ pc' = "power_rmw"
  /\ result' = Running
  /\ UNCHANGED <<lastSet, given>>

\* an identity check that only asks for a device that answers
IdentityOkNonzero(id) == id # 0

\* if self._device_id != 0x32
IdentityOk(id) == id = DEVICE_ID

ReadIdentity ==
  /\ pc = "check_id"
  /\ log' = Append(log, BusRead(REG_WHOAMI))
  /\ IF IdentityOk(regs[REG_WHOAMI])
     THEN pc' = "set_mode" /\ result' = Running
     ELSE pc' = "failed" /\ result' = Raise("RuntimeError")
  /\ UNCHANGED <<regs, rmw, call, before, foreign, lastSet, given>>

\* self._operation_mode = NORMAL
InitMode ==
  /\ pc = "set_mode"
  /\ log' = Append(log, BusRead(OPERATION_MODE))
  /\ CBitsSetRead("operation_mode", NORMAL)
  /\ pc' = "mode_rmw"
  /\ UNCHANGED <<call, result, before, foreign, lastSet, given>>

\* The device before construction: any identity byte, any image in the
\* power-control and operation-mode registers.
PowerImages == {0, 1, 130, 131}

ZeroRegs == [r \in Registers |-> 0]

InitNew ==
  /\ \E id \in Byte, p \in PowerImages, m \in DeviceImages :
       regs = [ZeroRegs EXCEPT ![REG_WHOAMI] = id, ![POWER_CONTROL] = p,
                               ![OPERATION_MODE] = m]
  /\ pc = "new"
  /\ rmw = NoRmw
  /\ call = NoCall
  /\ log = <<>>
  /\ result = NoResult
  /\ before = regs
  /\ foreign = {}
  /\ lastSet = NoSet
  /\ given = 0

NextInit == PowerOn \/ CBitsSetWrite \/ ReadIdentity \/ InitMode

SpecInit == InitNew /\ [][NextInit]_vars

(***************************************************************************)
(* The operation_mode, data_rate and interrupt_mode properties.            *)
(***************************************************************************)
ModeInputs == 0 .. MaxModeInput
RateInputs == 0 .. MaxRateInput
InterruptInputs == interrupt_mode_values \cup (0 .. MaxInterruptInput)

\* values[i] of a Python tuple: IndexError past its end
TupleIndex(names, i) ==
  IF i < Len(names) THEN Ok(names[i + 1]) ELSE Raise("IndexError")

\* return values[self._operation_mode]
OperationModeGet ==
  /\ Idle
  /\ Begin("operation_mode.get", 0)
  /\ log' = <<BusRead(OPERATION_MODE)>>
  /\ result' = TupleIndex(operation_mode_names,
                          CBitsGet(operation_mode_field, regs[OPERATION_MODE]))
  /\ rmw' = NoRmw
  /\ UNCHANGED <<regs, pc, lastSet, given>>

\* a range check in place of the membership test
ValidOperationModeRange(value) == value >= NORMAL /\ value <= SLEEP

\* if value not in operation_mode_values
ValidOperationMode(value) == value \in operation_mode_values

\* the setter up to and including the bus read of CBits.__set__
OperationModeSet(value) ==
  /\ Idle
  /\ Begin("operation_mode.set", value)
  /\ IF ValidOperationMode(value)
     THEN /\ log' = <<BusRead(OPERATION_MODE)>>
          /\ CBitsSetRead("operation_mode", value)
          /\ result' = Running
     ELSE /\ log' = <<>>
          /\ result' = Raise("ValueError")
          /\ rmw' = NoRmw
          /\ UNCHANGED regs
  /\ UNCHANGED <<pc, lastSet, given>>

\* return values[self._data_rate]
DataRateGet ==
  /\ Idle
  /\ Begin("data_rate.get", 0)
  /\ log' = <<BusRead(OPERATION_MODE)>>
  /\ result' = TupleIndex(data_rate_names,
                          CBitsGet(data_rate_field, regs[OPERATION_MODE]))
  /\ rmw' = NoRmw
  /\ UNCHANGED <<regs, pc, lastSet, given>>

\* if value not in data_rate_values
ValidDataRate(value) == value \in data_rate_values

DataRateSet(value) ==
  /\ Idle
  /\ Begin("data_rate.set", value)
  /\ IF ValidDataRate(value)
     THEN /\ log' = <<BusRead(OPERATION_MODE)>>
          /\ CBitsSetRead("data_rate", value)
          /\ result' = Running
     ELSE /\ log' = <<>>
          /\ result' = Raise("ValueError")
          /\ rmw' = NoRmw
          /\ UNCHANGED regs
  /\ UNCHANGED <<pc, lastSet, given>>

\* values = {INT_DISABLED: "INT_DISABLED", INT_ENABLED: "INT_ENABLED"}
\* return values[self._interrupt]: KeyError for any other byte
InterruptName(byte) ==
  IF byte = INT_DISABLED THEN Ok("INT_DISABLED")
  ELSE IF byte = INT_ENABLED THEN Ok("INT_ENABLED")
  ELSE Raise("KeyError")

InterruptModeGet ==
  /\ Idle
  /\ Begin("interrupt_mode.get", 0)
  /\ log' = <<BusRead(INTERRUPT)>>
  /\ result' = InterruptName(regs[INTERRUPT])
  /\ rmw' = NoRmw
  /\ UNCHANGED <<regs, pc, lastSet, given>>

\* if value not in interrupt_mode_values
ValidInterruptMode(value) == value \in interrupt_mode_values

\* self._interrupt = value: a whole-register write, no read before it
InterruptModeSet(value) ==
  /\ Idle
  /\ Begin("interrupt_mode.set", value)
  /\ IF ValidInterruptMode(value)
     THEN /\ regs' = [regs EXCEPT ![INTERRUPT] = value]
          /\ log' = <<BusWrite(INTERRUPT, value)>>
          /\ result' = Ok("")
          /\ lastSet' = [prop |-> "interrupt_mode", value |-> value]
     ELSE /\ log' = <<>>
          /\ result' = Raise("ValueError")
          /\ UNCHANGED <<regs, lastSet>>
  /\ rmw' = NoRmw
  /\ UNCHANGED <<pc, given>>

(***************************************************************************)
(* Another actor on the bus (or the device itself) writes a register the   *)
(* driver's bit-fields or interrupt mode live in.  It may do so between    *)
(* the two bus transactions of a bit-field write.                          *)
(***************************************************************************)
InterruptImages == {INT_ENABLED, INT_DISABLED, 63}

ForeignImages(reg) == IF reg = INTERRUPT THEN InterruptImages ELSE DeviceImages

ForeignWrite(reg, byte) ==
  /\ pc = "ready"
  /\ regs' = [regs EXCEPT ![reg] = byte]
  /\ lastSet' = NoSet
  /\ IF rmw.active
     THEN /\ foreign' = foreign \cup {reg}
          /\ UNCHANGED <<rmw, call, log, result, before>>
     ELSE /\ foreign' = {}
          /\ rmw' = NoRmw
          /\ call' = NoCall
          /\ log' = <<>>
          /\ result' = NoResult
          /\ before' = regs'
  /\ UNCHANGED <<pc, given>>

\* The state __init__ leaves: powered on, identity verified, mode NORMAL.
Init ==
  /\ \E m \in DeviceImages, i \in InterruptImages :
       regs = [ZeroRegs EXCEPT
                 ![REG_WHOAMI] = DEVICE_ID,
                 ![POWER_CONTROL] = CBitsImage(power_mode_field, 0, PowerOnValue),
                 ![OPERATION_MODE] = CBitsImage(operation_mode_field, m, NORMAL),
                 ![INTERRUPT] = i]
  /\ pc = "ready"
  /\ rmw = NoRmw
  /\ call = NoCall
  /\ log = <<>>
  /\ result = NoResult
  /\ before = regs
  /\ foreign = {}
  /\ lastSet = [prop |-> "operation_mode", value |-> NORMAL]
  /\ given = 0

Next ==
  \/ OperationModeGet
  \/ \E value \in ModeInputs : OperationModeSet(value)
  \/ DataRateGet
  \/ \E value \in RateInputs : DataRateSet(value)
  \/ InterruptModeGet
  \/ \E value \in InterruptInputs : InterruptModeSet(value)
  \/ CBitsSetWrite
  \/ \E reg \in {OPERATION_MODE, INTERRUPT} :
       \E byte \in ForeignImages(reg) : ForeignWrite(reg, byte)

Spec == Init /\ [][Next]_vars

(***************************************************************************)
(* Structured Register Accessor (i2c_helpers.RegisterStruct).              *)
(***************************************************************************)
\* "<h": one signed 16-bit value from two bytes, low byte first
Int16LE(lo, hi) ==
  LET u == lo + 256 * hi IN IF u >= 32768 THEN u - 65536 ELSE u

\* "<hhhh" read at 0x42: four signed 16-bit little-endian values
RawData(r) ==
  [i \in 1 .. 4 |-> Int16LE(r[DATA + 2 * (i - 1)], r[DATA + 2 * (i - 1) + 1])]

\* "B" write.  A value that does not fit one byte is not encodable: the
\* accessor either raises without writing or sends the low eight bits,
\* depending on the build (wraps).
StructWriteB(reg, v, wraps, prop) ==
  IF v \in Byte \/ wraps
  THEN /\ regs' = [regs EXCEPT ![reg] = v % 256]
       /\ log' = <<BusWrite(reg, v % 256)>>
       /\ result' = Ok("")
       /\ lastSet' = [prop |-> prop, value |-> given]
  ELSE /\ log' = <<>>
       /\ result' = Raise("OverflowError")
       /\ UNCHANGED <<regs, lastSet>>

(***************************************************************************)
(* The high_threshold and low_threshold properties.                        *)
(***************************************************************************)
\* rounding to the nearest step instead of truncating
ThresholdEncodeRound(value) == (value + 8) \div 16

\* int(value / 16)
ThresholdEncode(value) == TruncDiv(value, 16)

\* self._high_threshold * 16
ThresholdDecode(stored) == stored * 16

ThresholdSet(prop, reg) ==
  /\ Idle
  /\ Begin(prop, given)
  /\ \E wraps \in BOOLEAN : StructWriteB(reg, ThresholdEncode(given), wraps, prop)
  /\ rmw' = NoRmw
  /\ UNCHANGED <<pc, given>>

ThresholdGet(prop, reg) ==
  /\ Idle
  /\ Begin(prop, 0)
  /\ log' = <<BusRead(reg)>>
  /\ result' = Ok(ThresholdDecode(regs[reg]))
  /\ rmw' = NoRmw
  /\ UNCHANGED <<regs, pc, lastSet, given>>

HighThresholdSet == ThresholdSet("high_threshold.set", HIGH_THRESHOLD)
HighThresholdGet == ThresholdGet("high_threshold.get", HIGH_THRESHOLD)
LowThresholdSet == ThresholdSet("low_threshold.set", LOW_THRESHOLD)
LowThresholdGet == ThresholdGet("low_threshold.get", LOW_THRESHOLD)

\* the largest threshold one byte can hold
ThresholdMax == 255 * 16

ThresholdInputs == (0 - ThresholdMargin) .. (ThresholdMax + 15 + ThresholdMargin)

ThresholdImages == {0, 255}

\* A constructed driver, the caller holding a value for the thresholds.
InitThreshold ==
  /\ \E t \in ThresholdImages :
       regs = [ZeroRegs EXCEPT
                 ![REG_WHOAMI] = DEVICE_ID,
                 ![POWER_CONTROL] = CBitsImage(power_mode_field, 0, PowerOnValue),
                 ![HIGH_THRESHOLD] = t,
                 ![LOW_THRESHOLD] = t]
  /\ given \in ThresholdInputs
  /\ pc = "ready"
  /\ rmw = NoRmw
  /\ call = NoCall
  /\ log = <<>>
  /\ result = NoResult
  /\ before = regs
  /\ foreign = {}
  /\ lastSet = [prop |-> "operation_mode", value |-> NORMAL]

NextThreshold ==
  HighThresholdSet \/ HighThresholdGet \/ LowThresholdSet \/ LowThresholdGet

SpecThreshold == InitThreshold /\ [][NextThreshold]_vars

(***************************************************************************)
(* The measurements property.                                              *)
(***************************************************************************)
\* every field shifted like the x and y fields
MeasurementsSameShift(raw) ==
  <<Shr(raw[1], 3), Shr(raw[2], 3), Shr(raw[3], 3), Shr(raw[4], 2)>>

\* magx = raw_magx >> 3 ... hall = raw_rhall >> 2
Measurements(raw) ==
  <<Shr(raw[1], 3), Shr(raw[2], 3), Shr(raw[3], 1), Shr(raw[4], 2)>>

MeasurementsGet ==
  /\ Idle
  /\ Begin("measurements.get", 0)
  /\ log' = <<BusRead(DATA)>>
  /\ result' = Ok(Measurements(RawData(regs)))
  /\ rmw' = NoRmw
  /\ UNCHANGED <<regs, pc, lastSet, given>>

\* Raw samples the device holds: the ends of the signed 16-bit range and
\* values around the shift steps, of both signs.
RawValues == {-32768, -9, -8, -1, 0, 2, 7, 8, 64, 32767}

\* the two bytes of a signed 16-bit value, low byte first
LowByte(v) == v % 256
HighByte(v) == (v \div 256) % 256

DataBytes(q) ==
  [r \in Registers |->
     IF r \in DATA .. DATA + 7
     THEN IF (r - DATA) % 2 = 0
          THEN LowByte(q[(r - DATA) \div 2 + 1])
          ELSE HighByte(q[(r - DATA) \div 2 + 1])
     ELSE IF r = REG_WHOAMI THEN DEVICE_ID
     ELSE IF r = POWER_CONTROL THEN CBitsImage(power_mode_field, 0, PowerOnValue)
     ELSE 0]

\* A constructed driver, the device holding a sample.
InitMeasure ==
  /\ \E x \in RawValues, y \in RawValues, z \in RawValues, h \in RawValues :
       regs = DataBytes(<<x, y, z, h>>)
  /\ given = 0
  /\ pc = "ready"
  /\ rmw = NoRmw
  /\ call = NoCall
  /\ log = <<>>
  /\ result = NoResult
  /\ before = regs
  /\ foreign = {}
  /\ lastSet = [prop |-> "operation_mode", value |-> NORMAL]

NextMeasure == MeasurementsGet

SpecMeasure == InitMeasure /\ [][NextMeasure]_vars

(***************************************************************************)
(* The status_interrupt property.                                          *)
(***************************************************************************)
\* the flags filled in the order of the AlertStatus fields
StatusDecodePositional(data) ==
  [high_x |-> Shr(BitAnd(data, 32), 5),
   high_y |-> Shr(BitAnd(data, 16), 4),
   high_z |-> Shr(BitAnd(data, 8), 3),
   low_x |-> Shr(BitAnd(data, 4), 2),
   low_y |-> Shr(BitAnd(data, 2), 1),
   low_z |-> BitAnd(data, 1)]

\* highz = (data & 0x20) >> 5 ... lowx = data & 0x01, as an AlertStatus
StatusDecode(data) ==
  [high_x |-> Shr(BitAnd(data, 8), 3),
   high_y |-> Shr(BitAnd(data, 16), 4),
   high_z |-> Shr(BitAnd(data, 32), 5),
   low_x |-> BitAnd(data, 1),
   low_y |-> Shr(BitAnd(data, 2), 1),
   low_z |-> Shr(BitAnd(data, 4), 2)]

StatusInterruptGet ==
  /\ Idle
  /\ Begin("status_interrupt.get", 0)
  /\ log' = <<BusRead(STATUS_INTERRUPT)>>
  /\ result' = Ok(StatusDecode(regs[STATUS_INTERRUPT]))
  /\ rmw' = NoRmw
  /\ UNCHANGED <<regs, pc, lastSet, given>>

\* The device raises or clears interrupt flags.
DeviceStatus(byte) ==
  /\ pc = "ready"
  /\ regs' = [regs EXCEPT ![STATUS_INTERRUPT] = byte]
  /\ call' = NoCall
  /\ log' = <<>>
  /\ result' = NoResult
  /\ before' = regs'
  /\ UNCHANGED <<pc, rmw, foreign, lastSet, given>>

\* A constructed driver, no interrupt flag raised.
InitStatus ==
  /\ regs = [ZeroRegs EXCEPT
               ![REG_WHOAMI] = DEVICE_ID,
               ![POWER_CONTROL] = CBitsImage(power_mode_field, 0, PowerOnValue)]
  /\ given = 0
  /\ pc = "ready"
  /\ rmw = NoRmw
  /\ call = NoCall
  /\ log = <<>>
  /\ result = NoResult
  /\ before = regs
  /\ foreign = {}
  /\ lastSet = [prop |-> "operation_mode", value |-> NORMAL]

NextStatus == StatusInterruptGet \/ \E byte \in Byte : DeviceStatus(byte)

SpecStatus == InitStatus /\ [][NextStatus]_vars

(***************************************************************************)
(* Properties.                                                             *)
(***************************************************************************)
Setters == {"operation_mode.set", "data_rate.set", "interrupt_mode.set"}

LegalValues(op) ==
  CASE op = "operation_mode.set" -> operation_mode_values
    [] op = "data_rate.set" -> data_rate_values
    [] OTHER -> interrupt_mode_values

Writes(l) == {i \in 1 .. Len(l) : l[i].op = "W"}

\* C1: setting operation_mode, data_rate or interrupt_mode to a value outside
\* its legal set raises the invalid-value error with no bus read and no bus
\* write issued, and every register holds the bytes it held before the call.
C1_InvalidRejected ==
  (call.op \in Setters /\ call.arg \notin LegalValues(call.op)) =>
    /\ result = Raise("ValueError")
    /\ log = <<>>
    /\ regs = before

C1_Witness ==
  /\ call.op = "operation_mode.set"
  /\ call.arg = 2
  /\ result.kind = "ValueError"
  /\ before[OPERATION_MODE] = 255

ModeName(m) ==
  CASE m = NORMAL -> "NORMAL" [] m = FORCED -> "FORCED" [] OTHER -> "SLEEP"

\* C2: after operation_mode is set to a mode m of {NORMAL, FORCED, SLEEP},
\* reading operation_mode with no other write in between succeeds and
\* returns the name of m.
C2_ModeRoundTrip ==
  (/\ call.op = "operation_mode.get"
   /\ lastSet.prop = "operation_mode"
   /\ lastSet.value \in operation_mode_values) =>
    result = Ok(ModeName(lastSet.value))

\* C3: after data_rate is set to one of the 8 named rates r, reading
\* data_rate with no other write in between returns the name of r.
C3_RateRoundTrip ==
  (/\ call.op = "data_rate.get"
   /\ lastSet.prop = "data_rate"
   /\ lastSet.value \in data_rate_values) =>
    result = Ok(data_rate_names[lastSet.value + 1])

ModeRead(image) == TupleIndex(operation_mode_names, CBitsGet(operation_mode_field, image))
RateRead(image) == TupleIndex(data_rate_names, CBitsGet(data_rate_field, image))

\* C4: setting data_rate to a legal rate alters no bit of register 0x4C
\* outside the data-rate field, so operation_mode reads the same before and
\* after; setting operation_mode to a legal mode leaves what data_rate reads
\* unchanged.
C4_Independent ==
  /\ (call.op = "data_rate.set" /\ result.kind = "ok" /\ foreign = {}) =>
       /\ AndNot(regs[OPERATION_MODE], CBitsMask(data_rate_field))
            = AndNot(before[OPERATION_MODE], CBitsMask(data_rate_field))
       /\ ModeRead(regs[OPERATION_MODE]) = ModeRead(before[OPERATION_MODE])
  /\ (call.op = "operation_mode.set" /\ result.kind = "ok" /\ foreign = {}) =>
       RateRead(regs[OPERATION_MODE]) = RateRead(before[OPERATION_MODE])

\* C10: a bit-field write is a bus read followed by a bus write.  If another
\* actor wrote the register between the two, the register afterwards holds
\* the image the driver read with only the target field replaced (the other
\* actor's update is lost); if none did, every bit outside the target field
\* keeps its value.
C10_ReadModifyWrite ==
  (call.op \in {"operation_mode.set", "data_rate.set"} /\ result.kind = "ok") =>
    LET d == FieldOf(rmw.field)
        now == regs[d.register]
    IN /\ Len(log) = 2 /\ log[1].op = "R" /\ log[2].op = "W"
       /\ CBitsGet(d, now) = CBitsGet(d, Shl(rmw.value, d.start_bit))
       /\ AndNot(now, CBitsMask(d)) = AndNot(rmw.image, CBitsMask(d))
       /\ (d.register \notin foreign) =>
            AndNot(now, CBitsMask(d)) = AndNot(before[d.register], CBitsMask(d))

IdentityRead == {i \in 1 .. Len(log) : log[i].op = "R" /\ log[i].reg = REG_WHOAMI}

\* C6: when the identity register read during construction returns a byte
\* other than 0x32, construction fails with the device-not-found error, no
\* driver instance exists and the operation-mode write is never issued;
\* when the byte is 0x32 that error is not raised.
C6_InitFailure ==
  \A i \in IdentityRead :
    IF log[i].data # DEVICE_ID
    THEN /\ pc = "failed"
         /\ result = Raise("RuntimeError")
         /\ \A j \in 1 .. Len(log) : log[j].reg # OPERATION_MODE
         /\ regs[OPERATION_MODE] = before[OPERATION_MODE]
    ELSE /\ pc # "failed"
         /\ result.kind # "RuntimeError"

C6_Witness ==
  /\ pc = "failed"
  /\ result.kind = "RuntimeError"
  /\ regs[REG_WHOAMI] = 51
  /\ IdentityRead = {3}

InitOrder ==
  << <<"R", POWER_CONTROL>>, <<"W", POWER_CONTROL>>, <<"R", REG_WHOAMI>>,
     <<"R", OPERATION_MODE>>, <<"W", OPERATION_MODE>> >>

\* C9: construction issues its bus operations in one order, none repeated:
\* the power-control bit-field write (bit 0 of 0x4B set to 1), then one read
\* of the identity register, and then, only when the identity is 0x32, the
\* bit-field write of the operation-mode field to NORMAL.
C9_InitOrdering ==
  /\ Len(log) <= Len(InitOrder)
  /\ \A i \in 1 .. Len(log) : <<log[i].op, log[i].reg>> = InitOrder[i]
  /\ Len(log) >= 2 =>
       /\ log[2].data % 2 = 1
       /\ log[2].data \div 2 = log[1].data \div 2
  /\ Len(log) >= 4 => log[3].data = DEVICE_ID
  /\ Len(log) = 5 => CBitsGet(operation_mode_field, log[5].data) = NORMAL
  /\ pc = "ready" => Len(log) = 5
  /\ pc = "failed" => Len(log) = 3

C9_Witness ==
  /\ pc = "ready"
  /\ Len(log) = 5
  /\ before[OPERATION_MODE] = 255
  /\ regs[OPERATION_MODE] = 249
  /\ regs[POWER_CONTROL] = 131

Floor16(n) == 16 * (n \div 16)

\* C5: for high_threshold and for low_threshold, writing a threshold n with
\* 0 <= n <= 4080 and then reading it returns n rounded down to the nearest
\* multiple of 16: n itself when n is a multiple of 16, and 96 for n = 100
\* (stored as 6).
C5_ThresholdRoundTrip ==
  \A t \in {[p |-> "high_threshold", reg |-> HIGH_THRESHOLD],
            [p |-> "low_threshold", reg |-> LOW_THRESHOLD]} :
    /\ (/\ lastSet.prop = t.p \o ".set"
        /\ lastSet.value >= 0
        /\ lastSet.value <= ThresholdMax) =>
         /\ 16 * regs[t.reg] <= lastSet.value
         /\ lastSet.value < 16 * regs[t.reg] + 16
         /\ lastSet.value = 100 => regs[t.reg] = 6
         /\ call.op = t.p \o ".get" =>
              /\ result.kind = "ok"
              /\ result.val = Floor16(lastSet.value)
              /\ lastSet.value % 16 = 0 => result.val = lastSet.value
              /\ lastSet.value = 100 => result.val = 96
    /\ (call.op = t.p \o ".set" /\ given >= 0 /\ given <= ThresholdMax) =>
         /\ result.kind = "ok"
         /\ lastSet = [prop |-> call.op, value |-> given]

C5_Witness ==
  /\ call.op = "low_threshold.get"
  /\ lastSet = [prop |-> "low_threshold.set", value |-> 100]
  /\ result.val = 96
  /\ regs[LOW_THRESHOLD] = 6
  /\ before[LOW_THRESHOLD] = 6
  /\ regs[HIGH_THRESHOLD] = 255

\* C7: for the four signed 16-bit little-endian values (x, y, z, h) in the
\* 8 data bytes at 0x42, measurements returns (x >> 3, y >> 3, z >> 1,
\* h >> 2) under an arithmetic (floor) shift, so (64, 64, 2, 8) gives
\* (8, 8, 1, 2) and raw x = -8 gives -1; the read writes nothing.
C7_MeasurementDecode ==
  call.op = "measurements.get" =>
    LET raw == RawData(regs)
        m == result.val
        Within(v, r, step) == step * v <= r /\ r < step * v + step
    IN /\ result.kind = "ok"
       /\ Len(m) = 4
       /\ Within(m[1], raw[1], 8)
       /\ Within(m[2], raw[2], 8)
       /\ Within(m[3], raw[3], 2)
       /\ Within(m[4], raw[4], 4)
       /\ \A i \in 1 .. 4 : raw[i] < 0 <=> m[i] < 0
       /\ (/\ regs[DATA] = 64 /\ regs[DATA + 1] = 0
           /\ regs[DATA + 2] = 64 /\ regs[DATA + 3] = 0
           /\ regs[DATA + 4] = 2 /\ regs[DATA + 5] = 0
           /\ regs[DATA + 6] = 8 /\ regs[DATA + 7] = 0) => m = <<8, 8, 1, 2>>
       /\ (regs[DATA] = 248 /\ regs[DATA + 1] = 255) => m[1] = -1
       /\ Writes(log) = {}
       /\ regs = before

C7_Witness ==
  /\ call.op = "measurements.get"
  /\ regs[DATA] = 248 /\ regs[DATA + 1] = 255
  /\ regs[DATA + 4] = 2 /\ regs[DATA + 5] = 0
  /\ result.val[1] = -1
  /\ result.val[3] = 1

\* C8: for every byte b in the interrupt-status register, status_interrupt
\* returns six flags, each 0 or 1, with high_z = bit 5 of b, high_y = bit 4,
\* high_x = bit 3, low_z = bit 2, low_y = bit 1 and low_x = bit 0, bits 6 and
\* 7 having no influence (0b00101001 gives 1, 0, 1, 0, 0, 1); the read issues
\* no bus write.
C8_StatusDecode ==
  call.op = "status_interrupt.get" =>
    LET b == regs[STATUS_INTERRUPT]
        f == result.val
    IN /\ result.kind = "ok"
       /\ \A k \in {f.high_x, f.high_y, f.high_z, f.low_x, f.low_y, f.low_z} :
            k \in {0, 1}
       /\ b % 64 = 32 * f.high_z + 16 * f.high_y + 8 * f.high_x
                     + 4 * f.low_z + 2 * f.low_y + f.low_x
       /\ b = 41 => f = [high_z |-> 1, high_y |-> 0, high_x |-> 1,
                         low_z |-> 0, low_y |-> 0, low_x |-> 1]
       /\ Writes(log) = {}
       /\ Len(log) = 1
       /\ regs = before

C8_Witness ==
  /\ call.op = "status_interrupt.get"
  /\ regs[STATUS_INTERRUPT] = 233
  /\ result.val.high_z = 1
  /\ result.val.high_y = 0
  /\ result.val.low_x = 1
====
